---- MODULE Spec2Model ----
(***************************************************************************)
(* A model of electron_patcher_oclp_full.py: the executable patch/restore  *)
(* state machine (patch_executable, restore_executable), the preference    *)
(* flag patch (patch_local_state), the settings key patch                  *)
(* (patch_settings_file) and the orchestration over the registry.          *)
(***************************************************************************)
EXTENDS Integers, Sequences, FiniteSets, TLC

VARIABLES
    app,      \* the AppConfig under test and what discovery finds for it
    fs,       \* the bundle's files: path -> content, DOMAIN fs = existing paths
    running,  \* whether the application is running
    cmdline,  \* the patterns (bundle_id, name) the running app's command line matches
    cs,       \* the frame of the executable operation in progress
    written,  \* the files written by the most recent step of the program
    prev,     \* what the previous completed executable operation did
    state_file,  \* a Local State preference file: its text, or Absent
    ls_calls,    \* the patch_local_state calls made on it so far (the last two)
    settings_entry,  \* the AppConfig whose settings file is patched
    settings_file,   \* that settings file: its text, or Absent
    st_calls,        \* the patch_settings_file calls made on it so far (the last two)
    batch,           \* a run of the tool over the registry: its flags and progress
    disk,            \* what each registry entry has on disk
    disk0,           \* disk as it was when the run began
    probe,           \* an entry, the machine it is looked up on, and what was found
    proc             \* the process running main(): its arguments, position, exit code

execVars == <<app, fs, running, cmdline, cs, written, prev>>
prefVars == <<state_file, ls_calls>>
setVars == <<settings_entry, settings_file, st_calls>>
batchVars == <<batch, disk, disk0>>
findVars == <<probe>>
mainVars == <<proc>>
vars == <<execVars, prefVars, setVars, batchVars, findVars, mainVars>>

(***************************************************************************)
(* Program constants and bounds                                            *)
(***************************************************************************)
BACKUP_SUFFIX == ".oclp-original"
WRAPPER_MARKER == "# OCLP-WRAPPER-SCRIPT"

\* distinct builds of an application's native binary (an update ships a new one)
NumBuilds == 2

(***************************************************************************)
(* Files                                                                   *)
(***************************************************************************)
\* app_path / "Contents" / "MacOS" / executable_name
ExePath == <<"Contents", "MacOS", "CFBundleExecutable">>

\* executable_path.with_suffix(executable_path.suffix + BACKUP_SUFFIX)
BackupPathOf(executable_path) == Append(executable_path, BACKUP_SUFFIX)

BakPath == BackupPathOf(ExePath)

\* A native binary: read_text() cannot decode it, and it holds no marker line.
Binary(build) ==
    [decodable |-> FALSE, lines |-> <<"Mach-O">>, build |-> build, original_exec |-> <<>>]

\* What an interrupted copy or write leaves: the destination truncated.
Truncated ==
    [decodable |-> TRUE, lines |-> <<>>, build |-> 0, original_exec |-> <<>>]

create_wrapper_script(original_path, backup_path) ==
    [decodable |-> TRUE,
     lines |-> <<"#!/bin/bash", WRAPPER_MARKER,
                 "# This wrapper was created by electron_patcher_oclp_full.py",
                 "exec \"$ORIGINAL_EXEC\" --use-angle=gl \"$@\"">>,
     build |-> 0,
     original_exec |-> backup_path]

Exists(f, path) == path \in DOMAIN f

\* f with path holding content (created if absent)
WriteFile(f, path, content) ==
    [p \in DOMAIN f \cup {path} |-> IF p = path THEN content ELSE f[p]]

\* f without path
Unlink(f, path) == [p \in DOMAIN f \ {path} |-> f[p]]

\* a marker test that also asks for the backup beside the executable
is_already_patched_NeedsBackup(f, executable_path) ==
    IF ~Exists(f, executable_path) \/ ~Exists(f, BackupPathOf(executable_path))
    THEN FALSE
    ELSE IF ~f[executable_path].decodable
         THEN FALSE
         ELSE \E i \in DOMAIN f[executable_path].lines :
                 f[executable_path].lines[i] = WRAPPER_MARKER

\* lines 1460-1468
is_already_patched(f, executable_path) ==
    IF ~Exists(f, executable_path)
    THEN FALSE
    ELSE IF ~f[executable_path].decodable
         THEN FALSE   \* read_text() raises, caught
         ELSE \E i \in DOMAIN f[executable_path].lines :
                 f[executable_path].lines[i] = WRAPPER_MARKER

(***************************************************************************)
(* The running check                                                       *)
(***************************************************************************)
\* pgrep -f pattern: "match" (returncode 0), "nomatch", or the call raises
Pgrep(pattern, cmd, raises) ==
    IF raises THEN "raise" ELSE IF pattern \in cmd THEN "match" ELSE "nomatch"

is_app_running(config, cmd, id_raises, name_raises) ==
    IF ~config.has_bundle_id
    THEN FALSE
    ELSE IF Pgrep("bundle_id", cmd, id_raises) # "raise"
         THEN Pgrep("bundle_id", cmd, id_raises) = "match"
         ELSE IF Pgrep("name", cmd, name_raises) # "raise"
              THEN Pgrep("name", cmd, name_raises) = "match"
              ELSE FALSE

(***************************************************************************)
(* File operations that may fail.  io is what the operating system does:   *)
(* "ok", "denied" (PermissionError before anything is touched) or          *)
(* "partial" (an OSError after the destination was opened and truncated).  *)
(***************************************************************************)
IoOutcomes == {"ok", "denied", "partial"}

\* shutil.copy2(src, dst): [fs, exc, w], w the set of paths written
copy2(f, src, dst, io) ==
    IF ~Exists(f, src)
    THEN [fs |-> f, exc |-> "OSError", w |-> {}]   \* FileNotFoundError
    ELSE IF io = "ok"
         THEN [fs |-> WriteFile(f, dst, f[src]), exc |-> "none", w |-> {dst}]
         ELSE IF io = "denied"
              THEN [fs |-> f, exc |-> "PermissionError", w |-> {}]
              ELSE [fs |-> WriteFile(f, dst, Truncated), exc |-> "OSError", w |-> {dst}]

\* Path.write_text(content)
write_text(f, path, content, io) ==
    IF io = "ok"
    THEN [fs |-> WriteFile(f, path, content), exc |-> "none", w |-> {path}]
    ELSE IF io = "denied"
         THEN [fs |-> f, exc |-> "PermissionError", w |-> {}]
         ELSE [fs |-> WriteFile(f, path, Truncated), exc |-> "OSError", w |-> {path}]

\* Path.unlink()
unlink(f, path, io) ==
    IF ~Exists(f, path)
    THEN [fs |-> f, exc |-> "OSError", w |-> {}]
    ELSE IF io = "ok"
         THEN [fs |-> Unlink(f, path), exc |-> "none", w |-> {path}]
         ELSE [fs |-> f, exc |-> "PermissionError", w |-> {}]

(***************************************************************************)
(* The frame of a patch_executable / restore_executable call               *)
(***************************************************************************)
NoFiles == [p \in {} |-> Truncated]

IdleFrame ==
    [op |-> "none", pc |-> "idle", dry_run |-> FALSE,
     ret |-> "None",          \* "True", "False", or "Raise": an exception left the call
     outcome |-> "none",      \* the message the call ended with
     chk |-> "unchecked",     \* what is_app_running reported: "running", "not_running"
     fs0 |-> NoFiles,         \* the files when the call began
     writes |-> {},           \* the paths the call has written so far
     tools |-> <<>>,          \* the signing tools the call has invoked, in order
     sign |-> "none",         \* how the re-signing went
     caller |-> "direct",     \* or the bulk operation the call was made from
     at |-> "none"]           \* the step at which the call returned or raised

\* return ret, having logged outcome
Finish(c, ret, outcome) ==
    [c EXCEPT !.pc = "done", !.ret = ret, !.outcome = outcome, !.at = c.pc]

\* the except clauses of patch_executable (lines 1550-1555)
PatchExcept(c, exc) ==
    IF exc = "PermissionError"
    THEN Finish(c, "False", "permission_denied")
    ELSE Finish(c, "False", "failed_to_patch")

\* the except clause of restore_executable (lines 1596-1598)
RestoreExcept(c) == Finish(c, "False", "failed_to_restore")

\* The messages printed with force=True: shown whether or not verbose is set.
ForcedOutcomes ==
    {"blocked_running", "permission_denied", "failed_to_patch", "failed_to_restore"}

Step(f, c, w) == [fs |-> f, cs |-> [c EXCEPT !.writes = @ \cup w], w |-> w]

\* the step s of a call made by a bulk operation
CalledFrom(s, caller) == [s EXCEPT !.cs.caller = caller]

\* whether the manual remediation command is printed with force=True (line
\* 1543): only by patch_executable, and only when codesign ran and failed
RemediationShown(op, sign) == op = "patch" /\ sign = "codesign_nonzero"

\* what the executable part of patch_known_app appends to results (lines
\* 1752-1755), "" for nothing
KnownAppExecutableResult(c) ==
    IF c.outcome = "executable_already_patched" THEN "Executable already patched"
    ELSE IF c.ret = "True" THEN "Executable patched"
    ELSE ""

\* what restore_all_apps records for the entry (lines 1774-1789), "" for nothing
RestoreAllResult(c) ==
    IF c.outcome = "continue" THEN ""
    ELSE IF c.ret = "True" THEN "Restored"
    ELSE "Failed to restore"

(***************************************************************************)
(* patch_executable, step by step                                          *)
(***************************************************************************)
\* a patch_executable without the already-patched test
PatchBegin_NoMarkerTest(config, f, dry_run) ==
    LET c == [IdleFrame EXCEPT !.op = "patch", !.dry_run = dry_run, !.fs0 = f] IN
    IF ~config.installed
    THEN Step(f, Finish(c, "False", "skip_app_not_found"), {})
    ELSE IF ~config.plist_ok
         THEN Step(f, Finish(c, "False", "no_executable"), {})
         ELSE Step(f, [c EXCEPT !.pc = "p_repair"], {})

\* lines 1484-1499: discovery and the already-patched test
PatchBegin(config, f, dry_run) ==
    LET c == [IdleFrame EXCEPT !.op = "patch", !.dry_run = dry_run, !.fs0 = f] IN
    IF ~config.installed
    THEN Step(f, Finish(c, "False", "skip_app_not_found"), {})
    ELSE IF ~config.plist_ok
         THEN Step(f, Finish(c, "False", "no_executable"), {})
         ELSE IF is_already_patched(f, ExePath)
              THEN Step(f, Finish(c, "False", "already_patched"), {})
              ELSE Step(f, [c EXCEPT !.pc = "p_repair"], {})

\* a patch that goes on to the running check without the repair copy
PatchRepair_Skipped(f, c, io) == Step(f, [c EXCEPT !.pc = "p_running"], {})

\* lines 1501-1504: backup present, marker absent: copy the backup back (outside try)
PatchRepair(f, c, io) ==
    IF Exists(f, BakPath) /\ ~is_already_patched(f, ExePath)
    THEN IF ~c.dry_run
         THEN LET r == copy2(f, BakPath, ExePath, io) IN
              IF r.exc = "none"
              THEN Step(r.fs, [c EXCEPT !.pc = "p_running"], r.w)
              ELSE Step(r.fs, [c EXCEPT !.pc = "raised", !.ret = "Raise",
                                        !.outcome = "uncaught_exception",
                                        !.at = "p_repair"], r.w)
         ELSE Step(f, [c EXCEPT !.pc = "p_running"], {})
    ELSE Step(f, [c EXCEPT !.pc = "p_running"], {})

\* lines 1506-1515: the running check, then the dry-run return
PatchRunningCheck(f, c, is_running) ==
    IF is_running
    THEN Step(f, [Finish(c, "False", "blocked_running") EXCEPT !.chk = "running"], {})
    ELSE IF c.dry_run
         THEN Step(f, [Finish(c, "True", "dry_run") EXCEPT !.chk = "not_running"], {})
         ELSE Step(f, [c EXCEPT !.pc = "p_backup", !.chk = "not_running"], {})

\* a backup step that copies whether or not a backup exists
PatchBackup_Overwrite(f, c, io) ==
    LET r == copy2(f, ExePath, BakPath, io) IN
    IF r.exc = "none"
    THEN Step(r.fs, [c EXCEPT !.pc = "p_write"], r.w)
    ELSE Step(r.fs, PatchExcept(c, r.exc), r.w)

\* a patch that makes no backup
PatchBackup_Skipped(f, c, io) == Step(f, [c EXCEPT !.pc = "p_write"], {})

\* lines 1517-1520: create the backup unless one exists
PatchBackup(f, c, io) ==
    IF ~Exists(f, BakPath)
    THEN LET r == copy2(f, ExePath, BakPath, io) IN
         IF r.exc = "none"
         THEN Step(r.fs, [c EXCEPT !.pc = "p_write"], r.w)
         ELSE Step(r.fs, PatchExcept(c, r.exc), r.w)
    ELSE Step(f, [c EXCEPT !.pc = "p_write"], {})

\* a wrapper write that removes the backup when it fails
PatchWrite_RollsBack(f, c, io) ==
    LET r == write_text(f, ExePath, create_wrapper_script(ExePath, BakPath), io) IN
    IF r.exc = "none"
    THEN Step(r.fs, [c EXCEPT !.pc = "p_chmod"], r.w)
    ELSE Step(Unlink(r.fs, BakPath), PatchExcept(c, r.exc), r.w \cup {BakPath})

\* lines 1522-1523: overwrite the executable with the wrapper
PatchWrite(f, c, io) ==
    LET r == write_text(f, ExePath, create_wrapper_script(ExePath, BakPath), io) IN
    IF r.exc = "none"
    THEN Step(r.fs, [c EXCEPT !.pc = "p_chmod"], r.w)
    ELSE Step(r.fs, PatchExcept(c, r.exc), r.w)

\* line 1525: chmod +x
PatchChmod(f, c, io) ==
    IF io = "ok"
    THEN Step(f, [c EXCEPT !.pc = "p_sign"], {})
    ELSE Step(f, PatchExcept(c, "PermissionError"), {})

\* lines 1527-1548: strip attributes, re-sign; every failure is a warning only
SignOutcomes == {"ok", "codesign_nonzero", "xattr_raises", "codesign_raises"}

SignTools(sign) == IF sign = "xattr_raises" THEN <<"xattr">> ELSE <<"xattr", "codesign">>

PatchSign(f, c, sign) ==
    Step(f, [Finish(c, "True", "patched") EXCEPT !.tools = @ \o SignTools(sign),
                                                 !.sign = sign], {})

(***************************************************************************)
(* restore_executable, step by step                                        *)
(***************************************************************************)
\* a restore_executable without the no-backup skip
RestoreBegin_NoBackupTest(config, f, dry_run) ==
    LET c == [IdleFrame EXCEPT !.op = "restore", !.dry_run = dry_run, !.fs0 = f] IN
    IF ~config.installed
    THEN Step(f, Finish(c, "False", "skip_app_not_found"), {})
    ELSE IF ~config.plist_ok
         THEN Step(f, Finish(c, "False", "no_executable"), {})
         ELSE Step(f, [c EXCEPT !.pc = "r_running"], {})

\* lines 1557-1572: discovery and the no-backup skip
RestoreBegin(config, f, dry_run) ==
    LET c == [IdleFrame EXCEPT !.op = "restore", !.dry_run = dry_run, !.fs0 = f] IN
    IF ~config.installed
    THEN Step(f, Finish(c, "False", "skip_app_not_found"), {})
    ELSE IF ~config.plist_ok
         THEN Step(f, Finish(c, "False", "no_executable"), {})
         ELSE IF ~Exists(f, BakPath)
              THEN Step(f, Finish(c, "False", "skip_no_backup"), {})
              ELSE Step(f, [c EXCEPT !.pc = "r_running"], {})

\* a running check whose report is not acted on
RestoreRunningCheck_GoesOn(f, c, is_running) ==
    IF c.dry_run
    THEN Step(f, [Finish(c, "True", "dry_run")
                    EXCEPT !.chk = IF is_running THEN "running" ELSE "not_running"], {})
    ELSE Step(f, [c EXCEPT !.pc = "r_copy",
                           !.chk = IF is_running THEN "running" ELSE "not_running"], {})

\* lines 1574-1582
RestoreRunningCheck(f, c, is_running) ==
    IF is_running
    THEN Step(f, [Finish(c, "False", "blocked_running") EXCEPT !.chk = "running"], {})
    ELSE IF c.dry_run
         THEN Step(f, [Finish(c, "True", "dry_run") EXCEPT !.chk = "not_running"], {})
         ELSE Step(f, [c EXCEPT !.pc = "r_copy", !.chk = "not_running"], {})

\* a restore that copies the wrong way round
RestoreCopy_Swapped(f, c, io) ==
    LET r == copy2(f, ExePath, BakPath, io) IN
    IF r.exc = "none"
    THEN Step(r.fs, [c EXCEPT !.pc = "r_unlink"], r.w)
    ELSE Step(r.fs, RestoreExcept(c), r.w)

\* line 1585
RestoreCopy(f, c, io) ==
    LET r == copy2(f, BakPath, ExePath, io) IN
    IF r.exc = "none"
    THEN Step(r.fs, [c EXCEPT !.pc = "r_unlink"], r.w)
    ELSE Step(r.fs, RestoreExcept(c), r.w)

\* line 1586
RestoreUnlink(f, c, io) ==
    LET r == unlink(f, BakPath, io) IN
    IF r.exc = "none"
    THEN Step(r.fs, [c EXCEPT !.pc = "r_sign"], r.w)
    ELSE Step(r.fs, RestoreExcept(c), r.w)

\* lines 1588-1595: a tool that cannot be run raises into the outer except
RestoreSign(f, c, sign) ==
    IF sign \in {"xattr_raises", "codesign_raises"}
    THEN Step(f, [RestoreExcept(c) EXCEPT !.tools = @ \o SignTools(sign),
                                          !.sign = sign], {})
    ELSE Step(f, [Finish(c, "True", "restored") EXCEPT !.tools = @ \o SignTools(sign),
                                                   !.sign = sign], {})


(***************************************************************************)
(* Strings                                                                 *)
(***************************************************************************)
Char(s, i) == SubSeq(s, i, i)

\* t in s
Contains(s, t) ==
    \E i \in 1..(Len(s) - Len(t) + 1) : SubSeq(s, i, i + Len(t) - 1) = t

\* s.find(c) for a one-character c that s contains
Find(s, c) == CHOOSE i \in 1..Len(s) : Char(s, i) = c /\ \A j \in 1..(i - 1) : Char(s, j) # c

\* s.split(sep) for a one-character sep
RECURSIVE Split(_, _)
Split(s, sep) ==
    IF ~Contains(s, sep)
    THEN <<s>>
    ELSE <<SubSeq(s, 1, Find(s, sep) - 1)>>
             \o Split(SubSeq(s, Find(s, sep) + 1, Len(s)), sep)

UpperCase == "ABCDEFGHIJKLMNOPQRSTUVWXYZ"
LowerCase == "abcdefghijklmnopqrstuvwxyz"

LowerChar(c) ==
    IF Contains(UpperCase, c) THEN Char(LowerCase, Find(UpperCase, c)) ELSE c

\* s.lower()
RECURSIVE Lower(_)
Lower(s) == IF Len(s) = 0 THEN s ELSE LowerChar(Char(s, 1)) \o Lower(SubSeq(s, 2, Len(s)))

(***************************************************************************)
(* JSON documents.  A value is [k, v]: its kind and its content.  An       *)
(* object is a function from its keys.                                     *)
(***************************************************************************)
JNull == [k |-> "null", v |-> 0]
JBool(b) == [k |-> "bool", v |-> b]
JNum(n) == [k |-> "num", v |-> n]
JStr(s) == [k |-> "str", v |-> s]
JArr(items) == [k |-> "arr", v |-> items]
JObj(members) == [k |-> "obj", v |-> members]
EmptyObj == JObj([key \in {} |-> JNull])

\* A file's text: how it is laid out (fmt) and the JSON value it spells.
\* "bad" is text json.loads rejects, "blank" is whitespace only.
Absent == [fmt |-> "absent", val |-> JNull]
Text(fmt, val) == [fmt |-> fmt, val |-> val]
BadText == Text("bad", JNull)
BlankText == Text("blank", JNull)

\* a parser that reads text json.loads rejects as the empty object
json_loads_Lenient(text) ==
    IF text.fmt \in {"bad", "blank", "absent"}
    THEN [ok |-> TRUE, val |-> EmptyObj]
    ELSE [ok |-> TRUE, val |-> text.val]

\* json.loads(text): the value, or ok = FALSE when it raises
json_loads(text) ==
    IF text.fmt \in {"bad", "blank", "absent"}
    THEN [ok |-> FALSE, val |-> JNull]
    ELSE [ok |-> TRUE, val |-> text.val]

\* json.dumps(value, indent=n): the value laid out anew
json_dumps(val, indent) == Text(IF indent = 4 THEN "indent4" ELSE "indent2", val)

\* dict.setdefault(key, default) on the members of an object
SetDefault(members, key, default) ==
    IF key \in DOMAIN members
    THEN members
    ELSE [x \in DOMAIN members \cup {key} |-> IF x = key THEN default ELSE members[x]]

\* members[key] = value
SetItem(members, key, value) ==
    [x \in DOMAIN members \cup {key} |-> IF x = key THEN value ELSE members[x]]

(***************************************************************************)
(* patch_local_state                                                       *)
(***************************************************************************)
DESIRED_KEY == "use-angle"
DESIRED_VALUE == "1"

\* "{}@{}".format(self.DESIRED_KEY, self.DESIRED_VALUE)
Replacement == JStr(DESIRED_KEY \o "@" \o DESIRED_VALUE)

\* lines 1622-1637 for the entries from index i on; acc = [exps, changed, found_correct]
RECURSIVE RewriteEntries(_, _)
RewriteEntries(acc, i) ==
    IF i > Len(acc.exps)
    THEN acc
    ELSE LET entry == acc.exps[i] IN
         IF entry.k # "str"
         THEN RewriteEntries(acc, i + 1)
         ELSE IF ~Contains(entry.v, "@")
              THEN RewriteEntries(acc, i + 1)
              ELSE LET parts == Split(entry.v, "@")
                       key == parts[1]
                       rest == Tail(parts)
                       current_value == IF rest # <<>> THEN rest[1] ELSE ""
                   IN
                   IF key # DESIRED_KEY
                   THEN RewriteEntries(acc, i + 1)
                   ELSE IF current_value = DESIRED_VALUE
                        THEN RewriteEntries([acc EXCEPT !.found_correct = TRUE], i + 1)
                        ELSE RewriteEntries([acc EXCEPT !.exps[i] = Replacement,
                                                        !.changed = TRUE], i + 1)

\* a patch that puts the new entry first instead of last
AppendIfMissing_Prepend(acc) ==
    IF ~acc.found_correct /\ ~(\E i \in DOMAIN acc.exps : acc.exps[i] = Replacement)
    THEN [acc EXCEPT !.exps = <<Replacement>> \o @, !.changed = TRUE]
    ELSE acc

\* lines 1639-1641
AppendIfMissing(acc) ==
    IF ~acc.found_correct /\ ~(\E i \in DOMAIN acc.exps : acc.exps[i] = Replacement)
    THEN [acc EXCEPT !.exps = Append(@, Replacement), !.changed = TRUE]
    ELSE acc

LsResult(file, ret, outcome, wrote) ==
    [file |-> file, ret |-> ret, outcome |-> outcome, wrote |-> wrote]

\* lines 1644-1657, state_data being the document after the in-memory changes
WriteLocalState(file, state_data, changed, dry_run, io) ==
    IF ~changed
    THEN LsResult(file, "False", "unchanged", FALSE)
    ELSE IF dry_run
         THEN LsResult(file, "True", "dry_run", FALSE)
         ELSE IF io = "ok"
              THEN LsResult(json_dumps(state_data, 4), "True", "written", TRUE)
              ELSE LsResult(file, "False", "write_error", FALSE)

\* lines 1600-1657.  ret "Raise": an AttributeError leaves the call uncaught.
patch_local_state(file, dry_run, io) ==
    IF file = Absent
    THEN LsResult(file, "False", "skip_not_found", FALSE)
    ELSE IF ~json_loads(file).ok
    THEN LsResult(file, "False", "parse_error", FALSE)
    ELSE LET state_data == json_loads(file).val IN
    IF state_data.k # "obj"                       \* state_data.setdefault raises
    THEN LsResult(file, "Raise", "uncaught_exception", FALSE)
    ELSE LET top == SetDefault(state_data.v, "browser", EmptyObj)
             browser == top["browser"] IN
    IF browser.k # "obj"                          \* browser.setdefault raises
    THEN LsResult(file, "Raise", "uncaught_exception", FALSE)
    ELSE LET bm == SetDefault(browser.v, "enabled_labs_experiments", JArr(<<>>))
             experiments == IF bm["enabled_labs_experiments"].k # "arr"
                            THEN <<>>
                            ELSE bm["enabled_labs_experiments"].v
             acc == AppendIfMissing(
                        RewriteEntries([exps |-> experiments, changed |-> FALSE,
                                        found_correct |-> FALSE], 1))
             new_data == JObj(SetItem(top, "browser",
                             JObj(SetItem(bm, "enabled_labs_experiments", JArr(acc.exps)))))
         IN WriteLocalState(file, new_data, acc.changed, dry_run, io)


(***************************************************************************)
(* patch_settings_file                                                     *)
(***************************************************************************)
\* current_value == desired_value as Python compares: True == 1, False == 0
PyEqualsBool(current, desired_value) ==
    \/ current.k = "bool" /\ current.v = desired_value
    \/ current.k = "num" /\ current.v = (IF desired_value THEN 1 ELSE 0)

\* the polarity test without .lower()
DesiredValue_CaseSensitive(final_key) == Contains(final_key, "disable")

\* lines 1697-1700
DesiredValue(final_key) == Contains(Lower(final_key), "disable")

\* a walk that keeps, at each level, only the key on the path
RECURSIVE WalkAndSet_DropsSiblings(_, _)
WalkAndSet_DropsSiblings(target, keys) ==
    IF target.k # "obj"
    THEN [st |-> "raise", val |-> target]
    ELSE IF Len(keys) = 1
         THEN LET final_key == keys[1]
                  desired_value == DesiredValue(final_key)
                  current_value == IF final_key \in DOMAIN target.v
                                   THEN target.v[final_key]
                                   ELSE JNull                    \* dict.get: None
              IN IF PyEqualsBool(current_value, desired_value)
                 THEN [st |-> "same", val |-> target]
                 ELSE [st |-> "set",
                       val |-> JObj(SetItem(EmptyObj.v, final_key, JBool(desired_value)))]
         ELSE LET key == keys[1]
                  members == SetDefault(target.v, key, EmptyObj)
                  r == WalkAndSet_DropsSiblings(members[key], Tail(keys))
              IN IF r.st = "set"
                 THEN [st |-> "set", val |-> JObj(SetItem(EmptyObj.v, key, r.val))]
                 ELSE [st |-> r.st, val |-> target]

\* lines 1688-1708 from target down the keys still to walk:
\* st is "set" (val is target with the final key set), "same" (the final key
\* already holds the desired value) or "raise" (target is no mapping: the
\* membership test, the item access or .get raises TypeError/AttributeError).
RECURSIVE WalkAndSet(_, _)
WalkAndSet(target, keys) ==
    IF target.k # "obj"
    THEN [st |-> "raise", val |-> target]
    ELSE IF Len(keys) = 1
         THEN LET final_key == keys[1]
                  desired_value == DesiredValue(final_key)
                  current_value == IF final_key \in DOMAIN target.v
                                   THEN target.v[final_key]
                                   ELSE JNull                    \* dict.get: None
              IN IF PyEqualsBool(current_value, desired_value)
                 THEN [st |-> "same", val |-> target]
                 ELSE [st |-> "set",
                       val |-> JObj(SetItem(target.v, final_key, JBool(desired_value)))]
         ELSE LET key == keys[1]
                  members == SetDefault(target.v, key, EmptyObj)
                  r == WalkAndSet(members[key], Tail(keys))
              IN IF r.st = "set"
                 THEN [st |-> "set", val |-> JObj(SetItem(members, key, r.val))]
                 ELSE [st |-> r.st, val |-> target]

StResult(file, ret, outcome, wrote, created) ==
    [file |-> file, ret |-> ret, outcome |-> outcome, wrote |-> wrote, created |-> created]

\* lines 1678-1720 on a file that exists; created: this call created it
PatchExistingSettings(config, file, created, dry_run, io) ==
    LET content == IF file.fmt = "blank" THEN Text("compact", EmptyObj) ELSE file IN
    IF ~json_loads(content).ok
    THEN StResult(file, "False", "parse_error", FALSE, created)
    ELSE LET r == WalkAndSet(json_loads(content).val, Split(config.settings_key, ".")) IN
         IF r.st = "raise"
         THEN StResult(file, "Raise", "uncaught_exception", FALSE, created)
         ELSE IF r.st = "same"
         THEN StResult(file, "False", "unchanged", FALSE, created)
         ELSE IF dry_run
         THEN StResult(file, "True", "dry_run", FALSE, created)
         ELSE IF io = "ok"
         THEN StResult(json_dumps(r.val, 2), "True", "written", TRUE, created)
         ELSE StResult(file, "False", "write_error", FALSE, created)

\* a patch_settings_file that creates the missing file for every entry
patch_settings_file_CreatesForAll(config, file, dry_run, io_create, io) ==
    IF ~config.has_settings_file \/ config.settings_key = ""
    THEN StResult(file, "False", "not_configured", FALSE, FALSE)
    ELSE IF file = Absent
         THEN IF io_create = "ok"
              THEN PatchExistingSettings(config, Text("compact", EmptyObj),
                                         TRUE, dry_run, io)
              ELSE StResult(file, "False", "create_error", FALSE, FALSE)
         ELSE PatchExistingSettings(config, file, FALSE, dry_run, io)

\* lines 1659-1720
patch_settings_file(config, file, dry_run, io_create, io) ==
    IF ~config.has_settings_file \/ config.settings_key = ""
    THEN StResult(file, "False", "not_configured", FALSE, FALSE)
    ELSE IF file = Absent
         THEN IF Contains(Lower(config.name), "docker")
              THEN IF io_create = "ok"
                   THEN PatchExistingSettings(config, Text("compact", EmptyObj),
                                              TRUE, dry_run, io)
                   ELSE StResult(file, "False", "create_error", FALSE, FALSE)
              ELSE StResult(file, "False", "skip_not_found", FALSE, FALSE)
         ELSE PatchExistingSettings(config, file, FALSE, dry_run, io)

(***************************************************************************)
(* The executable state machine as a transition system: one application,   *)
(* calls of patch_executable and restore_executable one after the other,   *)
(* the application launched and quit at any moment in between their steps. *)
(***************************************************************************)
Binaries == {Binary(b) : b \in 1..NumBuilds}

Wrapper == create_wrapper_script(ExePath, BakPath)

\* The on-disk states a run of the tool may find: the executable a native
\* binary or a wrapper, and beside it no backup or the backup of some build.
InitFiles ==
    {[p \in {ExePath} |-> e] : e \in Binaries \cup {Wrapper}}
        \cup {[p \in {ExePath, BakPath} |-> IF p = ExePath THEN e ELSE b] :
                  e \in Binaries \cup {Wrapper}, b \in Binaries}

Configs == [installed : BOOLEAN, plist_ok : BOOLEAN, has_bundle_id : BOOLEAN]

NoPrev == [op |-> "none", dry_run |-> FALSE, ret |-> "None", fs0 |-> NoFiles]

\* the preference file plays no part in the executable state machine
PrefParked ==
    /\ state_file = Absent
    /\ ls_calls = <<>>

\* nor does a run over the registry
BatchParked ==
    /\ batch = [mode |-> "none", dry_run |-> FALSE, patch_executables |-> FALSE,
                i |-> 1, crashed |-> FALSE, results |-> <<>>, outcomes |-> <<>>]
    /\ disk = <<>>
    /\ disk0 = <<>>

\* nor does the lookup of an entry
DiscoveryParked == probe = [asked |-> FALSE]

\* nor does main()
MainParked == proc = [pc |-> "none"]

\* nor does the settings file
SettingsParked ==
    /\ settings_entry = [name |-> "", has_settings_file |-> FALSE, settings_key |-> ""]
    /\ settings_file = Absent
    /\ st_calls = <<>>

Init ==
    /\ app \in Configs
    /\ fs \in InitFiles
    /\ running = FALSE
    /\ cmdline = {}
    /\ cs = IdleFrame
    /\ written = {}
    /\ prev = NoPrev
    /\ PrefParked
    /\ SettingsParked
    /\ BatchParked
    /\ DiscoveryParked
    /\ MainParked

Take(r) ==
    /\ fs' = r.fs
    /\ cs' = r.cs
    /\ written' = r.w
    /\ UNCHANGED <<app, running, cmdline, prev, prefVars, setVars, batchVars, findVars, mainVars>>

Launch ==
    /\ ~running
    /\ running' = TRUE
    /\ cmdline' \in SUBSET {"bundle_id", "name"}
    /\ written' = {}
    /\ UNCHANGED <<app, fs, cs, prev, prefVars, setVars, batchVars, findVars, mainVars>>

Quit ==
    /\ running
    /\ running' = FALSE
    /\ cmdline' = {}
    /\ written' = {}
    /\ UNCHANGED <<app, fs, cs, prev, prefVars, setVars, batchVars, findVars, mainVars>>

CallPatch ==
    /\ cs.pc = "idle"
    /\ \E dry_run \in BOOLEAN : Take(PatchBegin(app, fs, dry_run))

DoPatchRepair ==
    /\ cs.pc = "p_repair"
    /\ \E io \in IoOutcomes : Take(PatchRepair(fs, cs, io))

DoPatchRunningCheck ==
    /\ cs.pc = "p_running"
    /\ \E id_raises \in BOOLEAN, name_raises \in BOOLEAN :
          Take(PatchRunningCheck(fs, cs,
                                 is_app_running(app, cmdline, id_raises, name_raises)))

DoPatchBackup ==
    /\ cs.pc = "p_backup"
    /\ \E io \in IoOutcomes : Take(PatchBackup(fs, cs, io))

DoPatchWrite ==
    /\ cs.pc = "p_write"
    /\ \E io \in IoOutcomes : Take(PatchWrite(fs, cs, io))

DoPatchChmod ==
    /\ cs.pc = "p_chmod"
    /\ \E io \in {"ok", "denied"} : Take(PatchChmod(fs, cs, io))

DoPatchSign ==
    /\ cs.pc = "p_sign"
    /\ \E sign \in SignOutcomes : Take(PatchSign(fs, cs, sign))

CallRestore ==
    /\ cs.pc = "idle"
    /\ \E dry_run \in BOOLEAN : Take(RestoreBegin(app, fs, dry_run))

DoRestoreRunningCheck ==
    /\ cs.pc = "r_running"
    /\ \E id_raises \in BOOLEAN, name_raises \in BOOLEAN :
          Take(RestoreRunningCheck(fs, cs,
                                   is_app_running(app, cmdline, id_raises, name_raises)))

DoRestoreCopy ==
    /\ cs.pc = "r_copy"
    /\ \E io \in IoOutcomes : Take(RestoreCopy(fs, cs, io))

DoRestoreUnlink ==
    /\ cs.pc = "r_unlink"
    /\ \E io \in {"ok", "denied"} : Take(RestoreUnlink(fs, cs, io))

DoRestoreSign ==
    /\ cs.pc = "r_sign"
    /\ \E sign \in SignOutcomes : Take(RestoreSign(fs, cs, sign))

\* The call returns (or its exception ends the run); the next call starts afresh.
Return ==
    /\ cs.pc \in {"done", "raised"}
    /\ prev' = [op |-> cs.op, dry_run |-> cs.dry_run, ret |-> cs.ret, fs0 |-> cs.fs0]
    /\ cs' = IdleFrame
    /\ written' = {}
    /\ UNCHANGED <<app, fs, running, cmdline, prefVars, setVars, batchVars, findVars, mainVars>>

\* The executable part of patch_known_app (lines 1750-1755) for an installed
\* entry that needs the executable patch, with patch_executables set.
CallPatchKnownApp ==
    /\ cs.pc = "idle"
    /\ app.installed
    /\ \E dry_run \in BOOLEAN :
          IF app.plist_ok /\ is_already_patched(fs, ExePath)
          THEN Take(Step(fs, Finish([IdleFrame EXCEPT !.op = "patch_known_app",
                                                      !.caller = "patch_known_app",
                                                      !.dry_run = dry_run, !.fs0 = fs],
                                    "None", "executable_already_patched"), {}))
          ELSE Take(CalledFrom(PatchBegin(app, fs, dry_run), "patch_known_app"))

\* One pass through the loop of restore_all_apps (lines 1772-1786) for an
\* entry that needs the executable patch.
CallRestoreAllApps ==
    /\ cs.pc = "idle"
    /\ \E dry_run \in BOOLEAN :
          IF ~app.installed \/ ~app.plist_ok \/ ~Exists(fs, BakPath)
          THEN Take(Step(fs, Finish([IdleFrame EXCEPT !.op = "restore_all_apps",
                                                      !.caller = "restore_all_apps",
                                                      !.dry_run = dry_run, !.fs0 = fs],
                                    "None", "continue"), {}))
          ELSE Take(CalledFrom(RestoreBegin(app, fs, dry_run), "restore_all_apps"))

Next ==
    \/ Launch
    \/ Quit
    \/ CallPatch
    \/ CallPatchKnownApp
    \/ CallRestoreAllApps
    \/ DoPatchRepair
    \/ DoPatchRunningCheck
    \/ DoPatchBackup
    \/ DoPatchWrite
    \/ DoPatchChmod
    \/ DoPatchSign
    \/ CallRestore
    \/ DoRestoreRunningCheck
    \/ DoRestoreCopy
    \/ DoRestoreUnlink
    \/ DoRestoreSign
    \/ Return

Spec == Init /\ [][Next]_vars

(***************************************************************************)
(* Claims about the executable state machine                               *)
(***************************************************************************)
PatchDone == cs.pc = "done" /\ cs.op = "patch"
RestoreDone == cs.pc = "done" /\ cs.op = "restore"

\* C1: whenever the running check reports true, a non-dry-run patch_executable
\* returns False and leaves the executable and the backup exactly as they were
\* when the call began, whatever state the pair was in.
C1_BlockedLeavesFilesAsTheyWere ==
    (PatchDone /\ ~cs.dry_run /\ cs.chk = "running")
        => (cs.ret = "False" /\ fs = cs.fs0)

\* C2: for an executable with no marker and no backup, a successful non-dry-run
\* patch_executable followed by a successful non-dry-run restore_executable
\* leaves the executable's content identical to the pre-patch original and
\* leaves no backup file.
C2_Case ==
    /\ RestoreDone /\ cs.ret = "True" /\ ~cs.dry_run
    /\ prev.op = "patch" /\ prev.ret = "True" /\ ~prev.dry_run
    /\ Exists(prev.fs0, ExePath)
    /\ ~is_already_patched(prev.fs0, ExePath)
    /\ ~Exists(prev.fs0, BakPath)

C2_RoundTrip ==
    C2_Case => /\ Exists(fs, ExePath)
               /\ fs[ExePath] = prev.fs0[ExePath]
               /\ ~Exists(fs, BakPath)

C2_Witness == C2_Case /\ fs[ExePath] \in Binaries

\* C3: an executable that holds the marker while no backup exists is not
\* treated as already patched by patch_executable.
C3_MarkerWithoutBackupNotPatched ==
    (PatchDone /\ app.installed /\ app.plist_ok
       /\ is_already_patched(cs.fs0, ExePath) /\ ~Exists(cs.fs0, BakPath))
        => cs.outcome # "already_patched"

\* C10: no step writes the executable in a state where the application runs.
C10_NoExecutableWriteWhileRunning ==
    (ExePath \in written) => ~running

\* the pair was Patched when the call began: wrapper in place, backup beside it
PatchedAtCall ==
    /\ app.installed /\ app.plist_ok
    /\ Exists(cs.fs0, ExePath) /\ cs.fs0[ExePath] = Wrapper
    /\ Exists(cs.fs0, BakPath)

C11_Case == cs.op \in {"patch", "patch_known_app"} /\ PatchedAtCall

\* C11: re-running the executable patch (patch_executable, or the executable
\* part of patch_known_app) on an executable that is already Patched writes
\* neither the executable nor the backup and invokes no re-signing.
C11_RepatchWritesNothing ==
    C11_Case => /\ fs = cs.fs0
                /\ cs.writes = {}
                /\ cs.tools = <<>>

C11_Witness ==
    /\ C11_Case /\ cs.pc = "done" /\ ~cs.dry_run
    /\ cs.caller = "direct" /\ cs.outcome = "already_patched"

C12_Case == cs.op = "patch" /\ Exists(cs.fs0, BakPath)

\* C12: if the backup exists when patch_executable starts, its content is the
\* same at every step of the call and when it ends, and in every reachable
\* state the executable has at most one backup file beside it.
C12_BackupNeverOverwritten ==
    /\ C12_Case => (Exists(fs, BakPath) /\ fs[BakPath] = cs.fs0[BakPath])
    /\ Cardinality({p \in DOMAIN fs : p # ExePath}) <= 1

\* a successful patch that began with a backup in place
C12_Witness ==
    /\ C12_Case /\ cs.pc = "done" /\ cs.ret = "True" /\ ~cs.dry_run
    /\ fs[ExePath] = Wrapper

C13_Case ==
    /\ cs.pc = "done" /\ cs.op \in {"restore", "restore_all_apps"}
    /\ app.installed /\ app.plist_ok
    /\ ~Exists(cs.fs0, BakPath)

\* C13: when no backup exists, restore_executable mutates nothing and ends
\* with the skip message rather than an error, and restore_all_apps records
\* neither 'Restored' nor 'Failed to restore'.
C13_NoBackupIsSkip ==
    C13_Case => /\ fs = cs.fs0 /\ cs.writes = {} /\ cs.tools = <<>>
                /\ cs.outcome \notin ForcedOutcomes
                /\ cs.op = "restore" => cs.outcome = "skip_no_backup"
                /\ cs.caller = "restore_all_apps" => RestoreAllResult(cs) = ""

C13_Witness ==
    /\ C13_Case /\ ~cs.dry_run
    /\ cs.op = "restore" /\ cs.outcome = "skip_no_backup"

C14_Case == cs.pc = "done" /\ cs.op = "restore" /\ cs.chk = "running"

\* C14: when a backup exists and the running check reports true,
\* restore_executable returns False, leaves the executable and the backup as
\* they were, invokes no re-signing, and restore_all_apps records
\* 'Failed to restore'.
C14_RestoreRefusedWhileRunning ==
    C14_Case => /\ cs.ret = "False"
                /\ Exists(cs.fs0, BakPath)
                /\ fs = cs.fs0 /\ cs.writes = {} /\ cs.tools = <<>>
                /\ cs.caller = "restore_all_apps"
                      => RestoreAllResult(cs) = "Failed to restore"

C14_Witness == C14_Case /\ ~cs.dry_run /\ cs.caller = "restore_all_apps"

\* C16: when stripping attributes or re-signing fails after the executable
\* was patched or restored, the operation still returns True and the warning
\* with the manual remediation command is printed whether or not verbose is
\* set.
C16_SignFailureWarnedAndNonFatal ==
    (cs.pc = "done" /\ cs.op \in {"patch", "restore"} /\ cs.sign \notin {"none", "ok"})
        => (cs.ret = "True" /\ RemediationShown(cs.op, cs.sign))

C22_Case ==
    /\ cs.op = "patch" /\ ~cs.dry_run /\ cs.pc # "raised"
    /\ app.installed /\ app.plist_ok
    /\ Exists(cs.fs0, BakPath)
    /\ cs.fs0[ExePath] # Wrapper

\* C22: on a non-dry-run patch attempt for an app whose backup exists but
\* whose executable lacks the marker, patch_executable copies the backup over
\* the executable before it makes the running check and before it patches;
\* when the app is not running and no step fails, the attempt ends with the
\* wrapper installed, the backup as it was, and the wrapper pointing at it.
C22_RepairCopyComesFirst ==
    C22_Case =>
        /\ cs.pc = "p_repair" => (cs.chk = "unchecked" /\ fs = cs.fs0)
        /\ cs.chk # "unchecked" => ExePath \in cs.writes
        /\ cs.pc \in {"p_running", "p_backup", "p_write"}
              => (ExePath \in cs.writes /\ fs[ExePath] = cs.fs0[BakPath])
        /\ (cs.pc = "done" /\ cs.chk = "not_running"
              /\ cs.outcome \notin {"permission_denied", "failed_to_patch"})
              => /\ cs.ret = "True"
                 /\ fs[ExePath] = create_wrapper_script(ExePath, BakPath)
                 /\ fs[ExePath].original_exec = BakPath
                 /\ Exists(fs, BakPath) /\ fs[BakPath] = cs.fs0[BakPath]

\* a patch that found another build's backup beside the executable went through
C22_Witness ==
    /\ C22_Case /\ cs.pc = "done" /\ cs.ret = "True"
    /\ cs.fs0[ExePath] \in Binaries /\ cs.fs0[BakPath] \in Binaries
    /\ cs.fs0[ExePath] # cs.fs0[BakPath]
    /\ fs[ExePath] = Wrapper /\ fs[BakPath] = cs.fs0[BakPath]

\* the wrapper write or the chmod of a patch_executable call failed
C23_Case ==
    /\ cs.op = "patch" /\ cs.pc = "done"
    /\ cs.at \in {"p_write", "p_chmod"}

C26_ResignAfterEveryExecutableWrite ==
    (cs.pc \in {"done", "raised"} /\ cs.op \in {"patch", "restore"}
       /\ ExePath \in cs.writes)
        => cs.tools = <<"xattr", "codesign">>

\* the executable holds the marker and no backup lies beside it
MarkerWithoutBackup(f) ==
    /\ Exists(f, ExePath) /\ f[ExePath] = Wrapper
    /\ ~Exists(f, BakPath)

\* C30: from a state in which the executable holds the marker and no backup
\* exists, every call of patch_executable, restore_executable, the executable
\* part of patch_known_app and the loop body of restore_all_apps ends at once
\* without success and writes nothing, and every step leaves the executable
\* and the backup as they are: no sequence of calls leaves that state.
C30_MarkerWithoutBackupIsNeverLeft ==
    /\ [](MarkerWithoutBackup(fs) =>
             /\ cs.pc \in {"idle", "done"}
             /\ cs.pc = "done" => (cs.ret # "True" /\ cs.writes = {} /\ cs.tools = <<>>))
    /\ [][MarkerWithoutBackup(fs) => fs' = fs]_vars

\* each of the four calls has been made in that state of an installed app
C30_Witness ==
    /\ MarkerWithoutBackup(fs) /\ app.installed /\ app.plist_ok
    /\ cs.pc = "done" /\ ~cs.dry_run
    /\ cs.op = "restore_all_apps"
    /\ prev.op = "patch" /\ MarkerWithoutBackup(prev.fs0)

(***************************************************************************)
(* The same calls on an application that starts out untouched: a native    *)
(* executable, no backup.                                                  *)
(***************************************************************************)
CleanStart == {[p \in {ExePath} |-> b] : b \in Binaries}

CleanInit ==
    /\ app \in Configs
    /\ fs \in CleanStart
    /\ running = FALSE
    /\ cmdline = {}
    /\ cs = IdleFrame
    /\ written = {}
    /\ prev = NoPrev
    /\ PrefParked
    /\ SettingsParked
    /\ BatchParked
    /\ DiscoveryParked
    /\ MainParked

SpecClean == CleanInit /\ [][Next]_vars

\* C28: starting from an executable with no marker and no backup, in every
\* state reached by patch_executable and restore_executable calls (dry-run or
\* not, the app running or not, any step failing), if the executable holds
\* the wrapper marker then the backup exists and holds no marker.
C28_MarkerImpliesCleanBackup ==
    is_already_patched(fs, ExePath)
        => (Exists(fs, BakPath) /\ ~is_already_patched(fs, BakPath))

\* a restore of a patched executable failed in its copy: the marker is still
\* there, and so is the backup
C28_Witness ==
    /\ is_already_patched(fs, ExePath)
    /\ cs.op = "restore" /\ cs.pc = "done" /\ cs.at = "r_copy"
    /\ prev.op = "patch" /\ prev.ret = "True" /\ ~prev.dry_run

\* C29: starting from an unpatched executable with no backup, whatever step
\* of patch_executable or restore_executable fails or is the last one before
\* an interruption, in every resulting state the executable or the backup
\* holds the original binary.
C29_OriginalAlwaysKept ==
    \E p \in DOMAIN fs : fs[p] \in Binaries

(***************************************************************************)
(* patch_local_state applied, again and again, to one preference file      *)
(***************************************************************************)
\* the longest flag list a preference document starts with
MaxFlags == 3

FlagEntries ==
    {JStr("x@1"),
     JStr("use-angle@1"),
     JStr("use-angle@2"),
     JStr("use-angle@1@x"),       \* a second "@": the value is still "1"
     JStr("use-angle"),           \* no "@": not a key@value entry
     JNum(7)}                     \* not a string

FlagLists == UNION {[1..n -> FlagEntries] : n \in 0..MaxFlags}

BrowserValues ==
    {JNum(5),                                                     \* not an object
     JObj([other |-> JNum(2)]),                                   \* no flag list
     JObj([other |-> JNum(2),
           enabled_labs_experiments |-> JStr("oops")])}       \* not a list
        \cup {JObj([other |-> JNum(2), enabled_labs_experiments |-> JArr(l)]) :
                 l \in FlagLists}

LocalStateFiles ==
    {Absent, BadText, BlankText,
     Text("compact", JArr(<<>>)),                                 \* top level not an object
     Text("compact", JObj([a |-> JNum(1)]))}                      \* no "browser"
        \cup {Text("compact", JObj([a |-> JNum(1), browser |-> b])) : b \in BrowserValues}

\* the executable plays no part here
ExecParked ==
    /\ app = [installed |-> FALSE, plist_ok |-> FALSE, has_bundle_id |-> FALSE]
    /\ fs = NoFiles
    /\ running = FALSE
    /\ cmdline = {}
    /\ cs = IdleFrame
    /\ written = {}
    /\ prev = NoPrev

PrefInit ==
    /\ state_file \in LocalStateFiles
    /\ ls_calls = <<>>
    /\ ExecParked
    /\ SettingsParked
    /\ BatchParked
    /\ DiscoveryParked
    /\ MainParked

LastTwo(calls) == IF Len(calls) > 2 THEN Tail(calls) ELSE calls

ApplyPatchLocalState ==
    \E dry_run \in BOOLEAN, io \in {"ok", "denied"} :
        \E r \in {patch_local_state(state_file, dry_run, io)} :
        /\ state_file' = r.file
        /\ ls_calls' = LastTwo(Append(ls_calls,
                           [dry_run |-> dry_run, ret |-> r.ret, outcome |-> r.outcome,
                            wrote |-> r.wrote, before |-> state_file]))
        /\ UNCHANGED <<execVars, setVars, batchVars, findVars, mainVars>>

PrefNext == ApplyPatchLocalState

SpecPrefs == PrefInit /\ [][PrefNext]_vars

(***************************************************************************)
(* Claims about patch_local_state                                          *)
(***************************************************************************)
\* an entry for the target key: a string that begins "use-angle@"
IsTargetEntry(e) ==
    /\ e.k = "str"
    /\ Len(e.v) > Len(DESIRED_KEY)
    /\ SubSeq(e.v, 1, Len(DESIRED_KEY) + 1) = DESIRED_KEY \o "@"

\* the flag list of a document, <<>> if it has none
FlagListOf(val) ==
    IF val.k # "obj" THEN <<>>
    ELSE IF "browser" \notin DOMAIN val.v THEN <<>>
    ELSE IF val.v["browser"].k # "obj" THEN <<>>
    ELSE IF "enabled_labs_experiments" \notin DOMAIN val.v["browser"].v THEN <<>>
    ELSE IF val.v["browser"].v["enabled_labs_experiments"].k # "arr" THEN <<>>
    ELSE val.v["browser"].v["enabled_labs_experiments"].v

TargetCount(list) == Cardinality({i \in DOMAIN list : IsTargetEntry(list[i])})

\* two applications in succession, both for real, of which the first went through
C6_Case ==
    /\ Len(ls_calls) = 2
    /\ json_loads(ls_calls[1].before).ok
    /\ \A i \in 1..2 : /\ ~ls_calls[i].dry_run
                       /\ ls_calls[i].ret \in {"True", "False"}
                       /\ ls_calls[i].outcome # "write_error"

\* C6: applying patch_local_state twice in succession to a parseable document,
\* the second application writes nothing and the resulting flag list has
\* exactly one entry for the target key.
C6_TwiceNoWriteOneEntry ==
    C6_Case => /\ ~ls_calls[2].wrote
               /\ TargetCount(FlagListOf(state_file.val)) = 1

\* the half of C6 that the code keeps: the second application writes nothing
C6_SecondWritesNothing == C6_Case => ~ls_calls[2].wrote

\* the members of an object value, none for any other value
MembersOf(val) == IF val.k = "obj" THEN val.v ELSE [key \in {} |-> JNull]

LastCall == ls_calls[Len(ls_calls)]

\* the last application wrote the file; old and new are the documents around it
C7_Relation(old, new) ==
    LET ol == FlagListOf(old)
        nl == FlagListOf(new)
        ob == IF "browser" \in DOMAIN MembersOf(old)
              THEN MembersOf(old.v["browser"]) ELSE MembersOf(JNull)
    IN
    \* every top-level key other than the container keeps its value
    /\ new.k = "obj"
    /\ DOMAIN new.v = DOMAIN old.v \cup {"browser"}
    /\ \A key \in DOMAIN old.v \ {"browser"} : new.v[key] = old.v[key]
    \* and so does every other key of the container
    /\ new.v["browser"].k = "obj"
    /\ \A key \in DOMAIN ob \ {"enabled_labs_experiments"} :
          /\ key \in DOMAIN new.v["browser"].v
          /\ new.v["browser"].v[key] = ob[key]
    \* entries for other keys keep their value and their place, an entry for
    \* the target key is rewritten where it stands
    /\ Len(nl) >= Len(ol)
    /\ \A i \in 1..Len(ol) :
          IF IsTargetEntry(ol[i])
          THEN nl[i] = ol[i] \/ nl[i] = Replacement
          ELSE nl[i] = ol[i]
    /\ SelectSeq(nl, LAMBDA e : ~IsTargetEntry(e)) = SelectSeq(ol, LAMBDA e : ~IsTargetEntry(e))
    \* with no entry for the target key, the new entry goes last
    /\ TargetCount(ol) = 0 => nl = Append(ol, Replacement)
    /\ TargetCount(ol) > 0 => Len(nl) = Len(ol)

SettingsEntries ==
    {[name |-> "Slack", has_settings_file |-> TRUE, settings_key |-> "useHwAcceleration"],
     [name |-> "Docker Desktop", has_settings_file |-> TRUE,
      settings_key |-> "disableHardwareAcceleration"],
     [name |-> "1Password", has_settings_file |-> TRUE,
      settings_key |-> "app.useHardwareAcceleration"],
     [name |-> "Sample", has_settings_file |-> TRUE,
      settings_key |-> "feature.disableHardwareAcceleration"],
     [name |-> "Sample", has_settings_file |-> TRUE, settings_key |-> "disableGpu.enabled"],
     [name |-> "Sample", has_settings_file |-> TRUE, settings_key |-> "app.DisableGpu"],
     [name |-> "Docker Desktop", has_settings_file |-> TRUE, settings_key |-> "a.b.useGpu"],
     [name |-> "Sample", has_settings_file |-> TRUE, settings_key |-> ""],
     [name |-> "Sample", has_settings_file |-> FALSE, settings_key |-> "useGpu"]}

Leaves ==
    {JNull, JBool(TRUE), JBool(FALSE), JNum(1), JNum(0), JStr("on"), JArr(<<>>)}

\* the values a document may hold where the walk down keys begins: a leaf, or
\* an object with or without the next key and with or without another key
RECURSIVE ValuesAt(_)
ValuesAt(keys) ==
    IF keys = <<>>
    THEN Leaves
    ELSE Leaves
           \cup {JObj([x \in {} |-> JNull]), JObj([x \in {"other"} |-> JStr("kept")])}
           \cup {JObj([x \in {keys[1]} |-> v]) : v \in ValuesAt(Tail(keys))}
           \cup {JObj([x \in {keys[1], "other"} |-> IF x = "other" THEN JStr("kept") ELSE v]) :
                    v \in ValuesAt(Tail(keys))}

SettingsFilesFor(config) ==
    {Absent, BadText, BlankText}
        \cup {Text("compact", v) : v \in ValuesAt(Split(config.settings_key, "."))}

SettingsInit ==
    /\ settings_entry \in SettingsEntries
    /\ settings_file \in SettingsFilesFor(settings_entry)
    /\ st_calls = <<>>
    /\ ExecParked
    /\ PrefParked
    /\ BatchParked
    /\ DiscoveryParked
    /\ MainParked

ApplyPatchSettingsFile ==
    \E dry_run \in BOOLEAN, io_create \in {"ok", "denied"}, io \in {"ok", "denied"} :
        \E r \in {patch_settings_file(settings_entry, settings_file, dry_run, io_create, io)} :
        /\ settings_file' = r.file
        /\ st_calls' = LastTwo(Append(st_calls,
                           [dry_run |-> dry_run, ret |-> r.ret, outcome |-> r.outcome,
                            wrote |-> r.wrote, created |-> r.created,
                            before |-> settings_file]))
        /\ UNCHANGED <<settings_entry, execVars, prefVars, batchVars, findVars, mainVars>>

SettingsNext == ApplyPatchSettingsFile

SpecSettings == SettingsInit /\ [][SettingsNext]_vars

(***************************************************************************)
(* Claims about patch_settings_file                                        *)
(***************************************************************************)
LastSettingsCall == st_calls[Len(st_calls)]

\* two real (not dry-run) calls in succession, the first of which met no
\* I/O failure
C8_Case ==
    /\ Len(st_calls) = 2
    /\ \A i \in 1..2 : ~st_calls[i].dry_run
    /\ st_calls[1].outcome \notin {"write_error", "create_error"}

\* C8: calling patch_settings_file twice in succession with the same entry,
\* for every settings document and every dotted key, the second call writes
\* nothing to the settings file and returns 'no change' (False).
C8_SecondCallReturnsNoChange ==
    C8_Case => /\ ~st_calls[2].wrote
               /\ ~st_calls[2].created
               /\ st_calls[2].ret = "False"

\* the half of C8 that the code keeps: the second call leaves the file alone
C8_SecondWritesNothing ==
    C8_Case => /\ ~st_calls[2].wrote
               /\ ~st_calls[2].created
               /\ settings_file = st_calls[2].before

\* the value a document holds at a path of keys (null where there is none)
RECURSIVE GetPath(_, _)
GetPath(val, keys) ==
    IF keys = <<>>
    THEN val
    ELSE IF val.k = "obj" /\ keys[1] \in DOMAIN val.v
         THEN GetPath(val.v[keys[1]], Tail(keys))
         ELSE JNull

\* what follows the last "." of a dotted key
RECURSIVE LastSegment(_)
LastSegment(s) ==
    IF ~Contains(s, ".") THEN s ELSE LastSegment(SubSeq(s, Find(s, ".") + 1, Len(s)))

\* the boolean the file holds at the entry's key after a call that wrote it
WrittenValue == GetPath(settings_file.val, Split(settings_entry.settings_key, "."))

C9_Case == st_calls # <<>> /\ LastSettingsCall.wrote

\* C9 as stated: the boolean written by patch_settings_file is true when the
\* settings key name contains "disable" and false for every other key name.
C9_TrueIffKeyNameContainsDisable ==
    C9_Case => WrittenValue = JBool(Contains(settings_entry.settings_key, "disable"))

\* C9 amended: the boolean written by patch_settings_file is true when the
\* last dot-separated segment of the settings key, lowercased, contains
\* "disable", and false otherwise; 'feature.disableHardwareAcceleration' gets
\* true and 'app.useHardwareAcceleration' gets false.
C9_TrueIffFinalSegmentLowercasedContainsDisable ==
    C9_Case =>
        /\ WrittenValue
             = JBool(Contains(Lower(LastSegment(settings_entry.settings_key)), "disable"))
        /\ settings_entry.settings_key = "feature.disableHardwareAcceleration"
             => WrittenValue = JBool(TRUE)
        /\ settings_entry.settings_key = "app.useHardwareAcceleration"
             => WrittenValue = JBool(FALSE)

\* a key whose final segment holds "Disable" in another case was written true
C9_Witness ==
    /\ C9_Case
    /\ settings_entry.settings_key = "app.DisableGpu"
    /\ WrittenValue = JBool(TRUE)

\* the entries of SettingsEntries that opt into creation: the code creates a
\* missing settings file for entries whose name holds "docker"
OptsIntoCreation(entry) == entry.name = "Docker Desktop"

C20_Case ==
    /\ st_calls # <<>>
    /\ settings_entry.has_settings_file /\ settings_entry.settings_key # ""
    /\ LastSettingsCall.before = Absent

\* the document that holds the entry's key, set to its desired value, and
\* nothing else at the top level
OnlyTheKeySet(file) ==
    /\ file.val.k = "obj"
    /\ DOMAIN file.val.v = {Split(settings_entry.settings_key, ".")[1]}
    /\ WrittenValue
         = JBool(Contains(Lower(LastSegment(settings_entry.settings_key)), "disable"))

\* C20: when the settings file is absent, patch_settings_file creates an
\* empty document and then sets the key only for an entry that opts into
\* creation; for every other entry the call creates no file, writes nothing
\* and returns False ('no change').
C20_MissingSettingsFile ==
    C20_Case =>
        IF OptsIntoCreation(settings_entry)
        THEN /\ LastSettingsCall.created <=> LastSettingsCall.outcome # "create_error"
             /\ LastSettingsCall.wrote <=> LastSettingsCall.outcome = "written"
             /\ LastSettingsCall.outcome \in {"create_error", "written", "write_error", "dry_run"}
             /\ LastSettingsCall.wrote => OnlyTheKeySet(settings_file)
             /\ (LastSettingsCall.created /\ ~LastSettingsCall.wrote)
                   => settings_file = Text("compact", EmptyObj)
             /\ ~LastSettingsCall.created => settings_file = Absent
        ELSE /\ settings_file = Absent
             /\ ~LastSettingsCall.created /\ ~LastSettingsCall.wrote
             /\ LastSettingsCall.ret = "False"
             /\ LastSettingsCall.outcome = "skip_not_found"

\* Docker Desktop's missing settings file was created and its key set to true
C20_Witness ==
    /\ C20_Case /\ ~LastSettingsCall.dry_run
    /\ settings_entry.name = "Docker Desktop"
    /\ settings_entry.settings_key = "disableHardwareAcceleration"
    /\ LastSettingsCall.created /\ LastSettingsCall.wrote
    /\ WrittenValue = JBool(TRUE)

\* new is old with the path of keys walked: at each level the keys off the
\* path keep their value, the key on the path is there, and the final key
\* holds the boolean its name asks for
RECURSIVE OnlyPathTouched(_, _, _)
OnlyPathTouched(old, new, keys) ==
    /\ old.k = "obj" /\ new.k = "obj"
    /\ DOMAIN new.v = DOMAIN old.v \cup {keys[1]}
    /\ \A key \in DOMAIN old.v \ {keys[1]} : new.v[key] = old.v[key]
    /\ IF Len(keys) = 1
       THEN new.v[keys[1]] = JBool(Contains(Lower(keys[1]), "disable"))
       ELSE OnlyPathTouched(IF keys[1] \in DOMAIN old.v THEN old.v[keys[1]] ELSE EmptyObj,
                            new.v[keys[1]], Tail(keys))

\* the document holds, above the final key, a value that is not a mapping
RECURSIVE NonMappingOnPath(_, _)
NonMappingOnPath(val, keys) ==
    IF val.k # "obj" THEN TRUE
    ELSE IF Len(keys) = 1 THEN FALSE
    ELSE IF keys[1] \in DOMAIN val.v
         THEN NonMappingOnPath(val.v[keys[1]], Tail(keys))
         ELSE FALSE

\* the last call met a settings document that is a JSON object
C25_Case ==
    /\ st_calls # <<>>
    /\ settings_entry.has_settings_file /\ settings_entry.settings_key # ""
    /\ json_loads(LastSettingsCall.before).ok
    /\ LastSettingsCall.before.val.k = "obj"

NextStep(s, io, is_running, sign) ==
    CASE s.cs.pc = "p_repair"  -> PatchRepair(s.fs, s.cs, io)
      [] s.cs.pc = "p_running" -> PatchRunningCheck(s.fs, s.cs, is_running)
      [] s.cs.pc = "p_backup"  -> PatchBackup(s.fs, s.cs, io)
      [] s.cs.pc = "p_write"   -> PatchWrite(s.fs, s.cs, io)
      [] s.cs.pc = "p_chmod"   -> PatchChmod(s.fs, s.cs, io)
      [] s.cs.pc = "p_sign"    -> PatchSign(s.fs, s.cs, sign)
      [] s.cs.pc = "r_running" -> RestoreRunningCheck(s.fs, s.cs, is_running)
      [] s.cs.pc = "r_copy"    -> RestoreCopy(s.fs, s.cs, io)
      [] s.cs.pc = "r_unlink"  -> RestoreUnlink(s.fs, s.cs, io)
      [] s.cs.pc = "r_sign"    -> RestoreSign(s.fs, s.cs, sign)

\* the steps one after another, under one I/O outcome, until the call has
\* returned or raised
RECURSIVE RunExecutable(_, _, _, _)
RunExecutable(s, io, is_running, sign) ==
    IF s.cs.pc \in {"done", "raised"}
    THEN s
    ELSE RunExecutable(NextStep(s, io, is_running, sign), io, is_running, sign)

patch_executable(env, f, dry_run, io, is_running, sign) ==
    RunExecutable(PatchBegin(env, f, dry_run), io, is_running, sign)

restore_executable(env, f, dry_run, io, is_running, sign) ==
    RunExecutable(RestoreBegin(env, f, dry_run), io, is_running, sign)

(***************************************************************************)
(* The registry and the batch operations                                   *)
(***************************************************************************)
\* The KNOWN_APPS entries that name a settings file, in registry order.
KNOWN_APPS ==
    <<[name |-> "Slack", local_state_paths |-> <<"Application Support/Slack/Local State">>,
       has_settings_file |-> TRUE, settings_key |-> "useHwAcceleration",
       needs_executable_patch |-> TRUE, has_bundle_id |-> TRUE],
      [name |-> "Docker Desktop",
       local_state_paths |-> <<"Application Support/Docker Desktop/Local State">>,
       has_settings_file |-> TRUE, settings_key |-> "disableHardwareAcceleration",
       needs_executable_patch |-> TRUE, has_bundle_id |-> TRUE],
      [name |-> "1Password", local_state_paths |-> <<>>,
       has_settings_file |-> TRUE, settings_key |-> "app.useHardwareAcceleration",
       needs_executable_patch |-> FALSE, has_bundle_id |-> TRUE]>>

\* what find_app_path and get_executable_from_app find for an entry on disk d
EnvOf(config, d) ==
    [installed |-> d.installed, plist_ok |-> d.plist_ok, has_bundle_id |-> config.has_bundle_id]

\* ", ".join(results)
RECURSIVE Join(_, _)
Join(results, sep) ==
    IF Len(results) = 1 THEN results[1] ELSE results[1] \o sep \o Join(Tail(results), sep)

\* lines 1739-1742 from the i-th path on; raised: patch_local_state raised
RECURSIVE PatchLocalStates(_, _, _, _)
PatchLocalStates(ls, i, dry_run, io) ==
    IF i > Len(ls)
    THEN [ls |-> ls, results |-> <<>>, raised |-> FALSE]
    ELSE LET r == patch_local_state(ls[i], dry_run, io) IN
         IF r.ret = "Raise"
         THEN [ls |-> ls, results |-> <<>>, raised |-> TRUE]
         ELSE LET rest == PatchLocalStates([ls EXCEPT ![i] = r.file], i + 1, dry_run, io) IN
              [ls |-> rest.ls,
               results |-> (IF r.ret = "True" THEN <<"Local State patched">> ELSE <<>>)
                              \o rest.results,
               raised |-> rest.raised]

\* exe: how the patch_executable / restore_executable call ended, if one was made
KnownAppResult(d, ret, raised) ==
    [disk |-> d, ret |-> ret, raised |-> raised, exe |-> "not_called"]

\* r, reached through a call e of patch_executable or restore_executable
AfterExecutableCall(r, e) == [r EXCEPT !.exe = e.cs.outcome]

\* lines 1757-1762; the warning sign that opens the "Needs
\* --patch-executables flag" message is left out
KnownAppReturn(config, d, results, patch_executables) ==
    IF results = <<>>
    THEN IF config.needs_executable_patch /\ ~patch_executables
         THEN KnownAppResult(d, "Needs --patch-executables flag", FALSE)
         ELSE KnownAppResult(d, "No changes needed", FALSE)
    ELSE KnownAppResult(d, Join(results, ", "), FALSE)

\* an executable part that does not look at the flag or at the entry
ExecutableStage_Unasked(config, d, results, patch_executables, e) ==
    IF d.plist_ok /\ is_already_patched(d.fs, ExePath)
    THEN KnownAppReturn(config, d, results \o <<"Executable already patched">>,
                        patch_executables)
    ELSE IF e.cs.ret = "Raise"
    THEN AfterExecutableCall(KnownAppResult([d EXCEPT !.fs = e.fs], "Raise", TRUE), e)
    ELSE AfterExecutableCall(
             KnownAppReturn(config, [d EXCEPT !.fs = e.fs],
                            results \o (IF e.cs.ret = "True"
                                        THEN <<"Executable patched">> ELSE <<>>),
                            patch_executables), e)

\* lines 1750-1755; e: what patch_executable does if it is called
ExecutableStage(config, d, results, patch_executables, e) ==
    IF ~(patch_executables /\ config.needs_executable_patch)
    THEN KnownAppReturn(config, d, results, patch_executables)
    ELSE IF d.plist_ok /\ is_already_patched(d.fs, ExePath)
    THEN KnownAppReturn(config, d, results \o <<"Executable already patched">>,
                        patch_executables)
    ELSE IF e.cs.ret = "Raise"
    THEN AfterExecutableCall(KnownAppResult([d EXCEPT !.fs = e.fs], "Raise", TRUE), e)
    ELSE AfterExecutableCall(
             KnownAppReturn(config, [d EXCEPT !.fs = e.fs],
                            results \o (IF e.cs.ret = "True"
                                        THEN <<"Executable patched">> ELSE <<>>),
                            patch_executables), e)

\* lines 1745-1747, then the rest; s: what patch_settings_file did
SettingsStage(config, d, results, s, dry_run, patch_executables, io, is_running) ==
    IF s.ret = "Raise"
    THEN KnownAppResult([d EXCEPT !.settings = s.file], "Raise", TRUE)
    ELSE ExecutableStage(config, [d EXCEPT !.settings = s.file],
                         results \o (IF s.ret = "True"
                                     THEN <<"Settings patched">> ELSE <<>>),
                         patch_executables,
                         patch_executable(EnvOf(config, d), d.fs, dry_run, io,
                                          is_running, "ok"))

\* lines 1739-1742, then the rest; l: what the patch_local_state calls did
LocalStateStage(config, d, l, dry_run, patch_executables, io, is_running) ==
    IF l.raised
    THEN KnownAppResult([d EXCEPT !.ls = l.ls], "Raise", TRUE)
    ELSE SettingsStage(config, [d EXCEPT !.ls = l.ls], l.results,
                       IF config.has_settings_file
                       THEN patch_settings_file(config, d.settings, dry_run, io, io)
                       ELSE StResult(d.settings, "False", "not_configured", FALSE, FALSE),
                       dry_run, patch_executables, io, is_running)

\* a patch_known_app that does not look whether the app is installed
patch_known_app_NoInstallTest(config, d, dry_run, patch_executables, io, is_running) ==
    LocalStateStage(config, d, PatchLocalStates(d.ls, 1, dry_run, io),
                    dry_run, patch_executables, io, is_running)

\* lines 1722-1762 for an entry whose files are d
patch_known_app(config, d, dry_run, patch_executables, io, is_running) ==
    IF ~d.installed
    THEN KnownAppResult(d, "Not installed", FALSE)
    ELSE LocalStateStage(config, d, PatchLocalStates(d.ls, 1, dry_run, io),
                         dry_run, patch_executables, io, is_running)

\* lines 1772-1789 for one entry: ret is "" where the loop continues without
\* recording anything
RestoreOneApp(config, d, dry_run, io, is_running) ==
    IF ~config.needs_executable_patch \/ ~d.installed
    THEN KnownAppResult(d, "", FALSE)
    ELSE IF ~d.plist_ok \/ ~Exists(d.fs, BakPath)
    THEN KnownAppResult(d, "", FALSE)
    ELSE LET e == restore_executable(EnvOf(config, d), d.fs, dry_run, io, is_running, "ok") IN
         AfterExecutableCall(
             KnownAppResult([d EXCEPT !.fs = e.fs],
                            IF e.cs.ret = "True" THEN "Restored" ELSE "Failed to restore",
                            e.cs.ret = "Raise"), e)

(***************************************************************************)
(* A run of patch_all_known_apps or restore_all_apps, entry by entry       *)
(***************************************************************************)
CleanFiles == [p \in {ExePath} |-> Binary(1)]
PatchedFiles ==
    [p \in {ExePath, BakPath} |->
        IF p = ExePath THEN create_wrapper_script(ExePath, BakPath) ELSE Binary(1)]
\* the backup is there but an update replaced the wrapper by a new binary
UpdatedFiles == [p \in {ExePath, BakPath} |-> Binary(1)]

UnpatchedLocalState ==
    Text("compact", JObj([browser |-> JObj([enabled_labs_experiments |-> JArr(<<JStr("x@1")>>)])]))
PatchedLocalState ==
    Text("compact", JObj([browser |-> JObj([enabled_labs_experiments |-> JArr(<<Replacement>>)])]))

PatchedSettings(config) ==
    Text("compact", WalkAndSet(EmptyObj, Split(config.settings_key, ".")).val)

\* a settings document with a number where the walk needs a mapping
UnwalkableSettings(config) ==
    LET keys == Split(config.settings_key, ".") IN
    IF Len(keys) = 1
    THEN Text("compact", JNum(5))
    ELSE Text("compact", JObj([x \in {keys[1]} |-> JNum(5)]))

AllPaths(config, file) == [i \in 1..Len(config.local_state_paths) |-> file]

\* The states an entry may be in on disk: installed and unpatched, and that
\* state with one thing different.
AppDisks(config) ==
    LET base == [installed |-> TRUE, plist_ok |-> TRUE,
                 ls |-> AllPaths(config, UnpatchedLocalState),
                 settings |-> Text("compact", EmptyObj),
                 fs |-> CleanFiles]
    IN {base,
        [base EXCEPT !.installed = FALSE],
        [base EXCEPT !.ls = AllPaths(config, Text("compact", JArr(<<>>)))],
        [base EXCEPT !.ls = AllPaths(config, Text("compact", JObj([browser |-> JNum(5)])))],
        [base EXCEPT !.settings = Absent],
        [base EXCEPT !.settings = UnwalkableSettings(config)],
        [base EXCEPT !.fs = UpdatedFiles],
        [base EXCEPT !.ls = AllPaths(config, PatchedLocalState),
                     !.settings = PatchedSettings(config),
                     !.fs = PatchedFiles]}

\* main(): --restore, or patching with or without --patch-executables
Runs ==
    {[mode |-> "patch", dry_run |-> d, patch_executables |-> pe,
      i |-> 1, crashed |-> FALSE, results |-> [n \in {} |-> ""],
      outcomes |-> <<>>] : d, pe \in BOOLEAN}
        \cup {[mode |-> "restore", dry_run |-> d, patch_executables |-> FALSE,
               i |-> 1, crashed |-> FALSE, results |-> [n \in {} |-> ""],
      outcomes |-> <<>>] : d \in BOOLEAN}

\* the disks of the entries from the i-th on, each in one of its states
RECURSIVE DisksFrom(_)
DisksFrom(i) ==
    IF i > Len(KNOWN_APPS)
    THEN {<<>>}
    ELSE {<<d>> \o rest : d \in AppDisks(KNOWN_APPS[i]), rest \in DisksFrom(i + 1)}

BatchInit ==
    /\ batch \in Runs
    /\ disk \in DisksFrom(1)
    /\ disk0 = disk
    /\ ExecParked
    /\ PrefParked
    /\ SettingsParked
    /\ DiscoveryParked
    /\ MainParked

\* the outcome of one pass through a loop body: an exception leaves the loop
\* and the run; otherwise the result, if any, is recorded and the loop goes on
Record(config, r) ==
    /\ disk' = [disk EXCEPT ![batch.i] = r.disk]
    /\ batch' = IF r.raised
                THEN [batch EXCEPT !.crashed = TRUE]
                ELSE [batch EXCEPT !.i = @ + 1,
                                   !.outcomes = Append(@, r.exe),
                                   !.results = IF r.ret \in {"", "Not installed"}
                                               THEN @
                                               ELSE SetItem(@, config.name, r.ret)]
    /\ UNCHANGED <<disk0, execVars, prefVars, setVars, findVars, mainVars>>

\* one pass through the loop of patch_all_known_apps (lines 1765-1768)
PatchNextApp ==
    /\ batch.mode = "patch" /\ ~batch.crashed /\ batch.i <= Len(KNOWN_APPS)
    /\ \E io \in {"ok", "denied"}, cmd \in {{}, {"bundle_id"}} :
          LET config == KNOWN_APPS[batch.i] IN
          Record(config, patch_known_app(config, disk[batch.i], batch.dry_run,
                                         batch.patch_executables, io,
                                         is_app_running(config, cmd, FALSE, FALSE)))

\* one pass through the loop of restore_all_apps (lines 1771-1789)
RestoreNextApp ==
    /\ batch.mode = "restore" /\ ~batch.crashed /\ batch.i <= Len(KNOWN_APPS)
    /\ \E io \in {"ok", "denied"}, cmd \in {{}, {"bundle_id"}} :
          LET config == KNOWN_APPS[batch.i] IN
          Record(config, RestoreOneApp(config, disk[batch.i], batch.dry_run, io,
                                       is_app_running(config, cmd, FALSE, FALSE)))

BatchNext == PatchNextApp \/ RestoreNextApp

SpecBatch == BatchInit /\ [][BatchNext]_vars

(***************************************************************************)
(* Claims about the batch operations                                       *)
(***************************************************************************)
\* C4: with dry_run set, no operation creates, modifies or deletes any file:
\* whatever dry-run operations a run has performed, the files on disk are
\* those the run began with.
C4_DryRunLeavesFilesAlone == batch.dry_run => disk = disk0

\* C5: patch_all_known_apps never throws on a per-app failure: no exception
\* raised while an entry is processed leaves the loop, so the run goes on to
\* the entries after it.
C5_PerAppFailureNeverAbortsBatch == batch.mode = "patch" => ~batch.crashed

Processed == 1..(batch.i - 1)

NameOf(i) == KNOWN_APPS[i].name

\* the ways patch_executable ends without patching an installed app
PatchFailures == {"blocked_running", "permission_denied", "failed_to_patch", "no_executable"}

\* C17: when the executable patch of an installed app fails (blocked because
\* the app is running, permission denied, executable unknown), the result
\* recorded for that app is there and is not 'No changes needed'.
C17_ExecutableFailureInResult ==
    batch.mode = "patch" =>
        \A i \in Processed :
            batch.outcomes[i] \in PatchFailures
                => /\ NameOf(i) \in DOMAIN batch.results
                   /\ batch.results[NameOf(i)] # "No changes needed"

\* C18: an entry whose install path cannot be resolved is skipped entirely:
\* none of its files is written, even when they exist, and it gets no entry
\* in the results, so the results hold exactly the installed apps among the
\* entries processed.
C18_NotInstalledSkippedEntirely ==
    batch.mode = "patch" =>
        /\ \A i \in Processed :
              ~disk0[i].installed => disk[i] = disk0[i]
        /\ DOMAIN batch.results = {NameOf(i) : i \in {j \in Processed : disk0[j].installed}}

\* a real run went through the whole registry, which held an entry that is
\* not installed but has its files, and an installed one that was patched
C18_Witness ==
    /\ batch.mode = "patch" /\ ~batch.dry_run /\ batch.i > Len(KNOWN_APPS)
    /\ \E i \in Processed : /\ ~disk0[i].installed
                            /\ disk0[i].settings # Absent
                            /\ disk0[i].ls # <<>>
    /\ \E i \in Processed : disk0[i].installed /\ disk[i] # disk0[i]

\* C19: if patch_executables is false or the entry's needs_executable_patch
\* is false, no run of patch_all_known_apps writes the entry's executable or
\* creates a backup for it.
C19_ExecutableOnlyWhenAskedAndNeeded ==
    batch.mode = "patch" =>
        \A i \in 1..Len(KNOWN_APPS) :
            (~batch.patch_executables \/ ~KNOWN_APPS[i].needs_executable_patch)
                => disk[i].fs = disk0[i].fs

\* a real run without --patch-executables changed an installed entry whose
\* backup lies beside an unpatched executable
C19_Witness ==
    /\ batch.mode = "patch" /\ ~batch.dry_run /\ ~batch.patch_executables
    /\ \E i \in Processed : /\ disk0[i].installed
                            /\ KNOWN_APPS[i].needs_executable_patch
                            /\ disk0[i].fs = UpdatedFiles
                            /\ disk[i].ls # disk0[i].ls

(***************************************************************************)
(* patch_local_state and patch_settings_file, each on its own file         *)
(***************************************************************************)
\* files that exist: text that is not JSON, whitespace only, or a document
DocsLocalStateFiles == {BadText, BlankText, UnpatchedLocalState}

DocsSettingsFiles == {BadText, BlankText, Text("compact", EmptyObj)}

DocsInit ==
    /\ state_file \in DocsLocalStateFiles
    /\ ls_calls = <<>>
    /\ settings_entry \in SettingsEntries
    /\ settings_file \in DocsSettingsFiles
    /\ st_calls = <<>>
    /\ ExecParked
    /\ BatchParked
    /\ DiscoveryParked
    /\ MainParked

DocsNext == ApplyPatchLocalState \/ ApplyPatchSettingsFile

SpecDocs == DocsInit /\ [][DocsNext]_vars

(***************************************************************************)
(* Claims about files that cannot be parsed                                *)
(***************************************************************************)
\* the file exists and its text is not JSON (whitespace only included)
NotJson(file) == file.fmt \in {"bad", "blank"}

\* the call left the file as it found it and reported no change
FailedWithoutWriting(call, file) ==
    /\ file = call.before
    /\ ~call.wrote
    /\ call.ret = "False"

\* C15 as stated: when a preference document or a settings document exists
\* but is not parseable JSON, patch_local_state / patch_settings_file fails
\* without writing it: the content after the call equals the content before.
C15_UnparseableFileKept ==
    /\ (ls_calls # <<>> /\ NotJson(LastCall.before))
          => FailedWithoutWriting(LastCall, state_file)
    /\ (st_calls # <<>> /\ NotJson(LastSettingsCall.before))
          => FailedWithoutWriting(LastSettingsCall, settings_file)

\* C15 amended: a preference document that is not parseable JSON, and a
\* settings document that is not parseable JSON and not empty or whitespace
\* only, is left as it was by a call that fails; an empty or whitespace-only
\* settings document is read as the empty object, so it is no parse failure.
C15_UnparseableKeptUnlessBlankSettings ==
    /\ (ls_calls # <<>> /\ NotJson(LastCall.before))
          => (FailedWithoutWriting(LastCall, state_file)
                /\ LastCall.outcome = "parse_error")
    /\ (st_calls # <<>> /\ LastSettingsCall.before.fmt = "bad")
          => FailedWithoutWriting(LastSettingsCall, settings_file)
    /\ (st_calls # <<>> /\ LastSettingsCall.before.fmt = "blank")
          => LastSettingsCall.outcome # "parse_error"

\* both kinds of file met a real call with text that is not JSON
C15_Witness ==
    /\ ls_calls # <<>> /\ LastCall.before = BadText /\ ~LastCall.dry_run
    /\ st_calls # <<>> /\ LastSettingsCall.before = BadText
    /\ ~LastSettingsCall.dry_run
    /\ LastSettingsCall.outcome = "parse_error"

(***************************************************************************)
(* find_app_path and is_app_running, each applied to an entry and the      *)
(* machine it is looked up on                                              *)
(***************************************************************************)
\* the most candidate install paths an entry lists
MaxPaths == 2

\* the most lines the metadata search prints
MaxHits == 2

SeqsUpTo(S, n) == UNION {[1..k -> S] : k \in 0..n}

\* s.strip()
RECURSIVE Strip(_)
Strip(s) ==
    IF Len(s) = 0 THEN s
    ELSE IF Contains(" \n", Char(s, 1)) THEN Strip(SubSeq(s, 2, Len(s)))
    ELSE IF Contains(" \n", Char(s, Len(s))) THEN Strip(SubSeq(s, 1, Len(s) - 1))
    ELSE s

\* s.endswith(suffix)
EndsWith(s, suffix) ==
    Len(s) >= Len(suffix) /\ SubSeq(s, Len(s) - Len(suffix) + 1, Len(s)) = suffix

\* what mdfind prints for the bundles it finds: one path per line
Stdout(lines) == IF lines = <<>> THEN "" ELSE Join(lines, "\n") \o "\n"

\* lines 1399-1402: the first candidate that exists, "None" if there is none
RECURSIVE FirstExisting(_, _)
FirstExisting(app_paths, existing) ==
    IF app_paths = <<>> THEN "None"
    ELSE IF app_paths[1] \in existing THEN app_paths[1]
    ELSE FirstExisting(Tail(app_paths), existing)

\* a find_app_path that takes the first line of the search, bundle or not
find_app_path_AnyLine(config, existing, mdfind) ==
    IF FirstExisting(config.app_paths, existing) # "None"
    THEN FirstExisting(config.app_paths, existing)
    ELSE IF ~config.has_bundle_id \/ mdfind.raises
         THEN "None"
         ELSE IF Split(Strip(mdfind.stdout), "\n")[1] # ""
              THEN Split(Strip(mdfind.stdout), "\n")[1]
              ELSE "None"

\* lines 1398-1416; mdfind: whether the search raises, and what it prints
find_app_path(config, existing, mdfind) ==
    IF FirstExisting(config.app_paths, existing) # "None"
    THEN FirstExisting(config.app_paths, existing)
    ELSE IF ~config.has_bundle_id
         THEN "None"
         ELSE IF mdfind.raises
              THEN "None"
              ELSE LET app_paths == SelectSeq(Split(Strip(mdfind.stdout), "\n"),
                                              LAMBDA q : EndsWith(q, ".app"))
                   IN IF app_paths # <<>> THEN app_paths[1] ELSE "None"

\* an entry with up to MaxPaths candidate paths, each there or not, and a
\* search that raises or prints up to MaxHits lines
DiscoveryInit ==
    /\ \E app_paths \in SeqsUpTo({"/Applications/A.app", "/Applications/Setapp/A.app"},
                                 MaxPaths),
          has_bundle_id \in BOOLEAN,
          existing \in SUBSET {"/Applications/A.app", "/Applications/Setapp/A.app"},
          raises \in BOOLEAN,
          lines \in SeqsUpTo({"/opt/A.app", "/opt/A.app.bak", "/Volumes/V/A.app"},
                             MaxHits) :
            probe = [asked |-> TRUE,
                     config |-> [app_paths |-> app_paths, has_bundle_id |-> has_bundle_id],
                     existing |-> existing,
                     lines |-> lines,
                     mdfind |-> [raises |-> raises, stdout |-> Stdout(lines)],
                     found |-> "unasked",
                     pgrep |-> [cmd |-> {}, id_raises |-> FALSE, name_raises |-> FALSE],
                     is_running |-> "unasked"]
    /\ ExecParked
    /\ PrefParked
    /\ SettingsParked
    /\ BatchParked
    /\ MainParked

CallFindAppPath ==
    /\ probe.found = "unasked"
    /\ probe' = [probe EXCEPT !.found = find_app_path(probe.config, probe.existing,
                                                     probe.mdfind)]
    /\ UNCHANGED <<execVars, prefVars, setVars, batchVars, mainVars>>

CallIsAppRunning ==
    /\ probe.is_running = "unasked"
    /\ \E cmd \in SUBSET {"bundle_id", "name"}, id_raises \in BOOLEAN, name_raises \in BOOLEAN :
          probe' = [probe EXCEPT
                       !.pgrep = [cmd |-> cmd, id_raises |-> id_raises,
                                  name_raises |-> name_raises],
                       !.is_running = IF is_app_running(probe.config, cmd, id_raises,
                                                        name_raises)
                                      THEN "True" ELSE "False"]
    /\ UNCHANGED <<execVars, prefVars, setVars, batchVars, mainVars>>

DiscoveryNext == CallFindAppPath \/ CallIsAppRunning

SpecDiscovery == DiscoveryInit /\ [][DiscoveryNext]_vars

(***************************************************************************)
(* Claims about find_app_path and is_app_running                           *)
(***************************************************************************)
\* the query for pattern finds a match: it runs without failing and the
\* pattern is on the command line of some process
QueryMatches(pattern) ==
    /\ pattern \in probe.pgrep.cmd
    /\ ~(IF pattern = "bundle_id" THEN probe.pgrep.id_raises ELSE probe.pgrep.name_raises)

\* C24: is_app_running queries the process table for the bundle identifier
\* and, if the entry has no identifier or that query finds no match, for the
\* display name; the result is true if either query matches, a query that
\* fails counting as no match.
C24_NameIsTheFallback ==
    probe.is_running # "unasked" =>
        (probe.is_running = "True"
            <=> \/ probe.config.has_bundle_id /\ QueryMatches("bundle_id")
                \/ QueryMatches("name"))

\* the candidates that exist, by their place in the entry's list
ExistingCandidates ==
    {i \in DOMAIN probe.config.app_paths : probe.config.app_paths[i] \in probe.existing}

\* the lines of the search that name a bundle, by their place in its output
BundleLines == {i \in DOMAIN probe.lines : EndsWith(probe.lines[i], ".app")}

\* the least member of a non-empty set of numbers
Least(S) == CHOOSE i \in S : \A j \in S : i <= j

\* C27: find_app_path returns the first candidate install path, in listed
\* order, that exists; only if none exists and the entry has an identifier
\* does the metadata search count, and then the first of its results that
\* ends in ".app" is returned; in every other case, a failing search
\* included, the answer is 'not found' and nothing is raised.
C27_FirstExistingCandidateThenSearch ==
    probe.found # "unasked" =>
        IF ExistingCandidates # {}
        THEN probe.found = probe.config.app_paths[Least(ExistingCandidates)]
        ELSE IF probe.config.has_bundle_id /\ ~probe.mdfind.raises /\ BundleLines # {}
             THEN probe.found = probe.lines[Least(BundleLines)]
             ELSE probe.found = "None"

\* no candidate was there, and the search printed a bundle on its second line
C27_Witness ==
    /\ probe.found = "/Volumes/V/A.app"
    /\ Len(probe.config.app_paths) = 2 /\ ExistingCandidates = {}
    /\ probe.lines = <<"/opt/A.app.bak", "/Volumes/V/A.app">>

(***************************************************************************)
(* main(): the platform check, then one of the three modes, then the exit  *)
(***************************************************************************)
\* the run of patch_all_known_apps or restore_all_apps that main() makes
RunOf(args) ==
    [mode |-> IF args.restore THEN "restore" ELSE "patch",
     dry_run |-> args.dry_run,
     patch_executables |-> IF args.restore THEN FALSE ELSE args.patch_executables,
     i |-> 1, crashed |-> FALSE, results |-> [n \in {} |-> ""], outcomes |-> <<>>]

\* lines 1795-1825: the two counts list_detected_apps prints
ListedCounts(d) ==
    [installed |-> Cardinality({i \in DOMAIN KNOWN_APPS : d[i].installed}),
     patched |-> Cardinality({i \in DOMAIN KNOWN_APPS :
                                 /\ d[i].installed
                                 /\ KNOWN_APPS[i].needs_executable_patch
                                 /\ d[i].plist_ok
                                 /\ is_already_patched(d[i].fs, ExePath)})]

\* sys.platform, and argparse's namespace: the four flags that choose what
\* the run does
MainInit ==
    /\ proc \in [pc : {"start"}, platform : {"darwin", "linux"},
                 args : [dry_run : BOOLEAN, patch_executables : BOOLEAN,
                         restore : BOOLEAN, list_apps : BOOLEAN],
                 exit_code : {"none"}, listed : {"none"}]
    /\ batch = [mode |-> "none", dry_run |-> FALSE, patch_executables |-> FALSE,
                i |-> 1, crashed |-> FALSE, results |-> <<>>, outcomes |-> <<>>]
    /\ disk \in DisksFrom(1)
    /\ disk0 = disk
    /\ ExecParked
    /\ PrefParked
    /\ SettingsParked
    /\ DiscoveryParked

\* lines 1878-1880: any other platform ends the run at once
RejectPlatform ==
    /\ proc.pc = "start" /\ proc.platform # "darwin"
    /\ proc' = [proc EXCEPT !.pc = "exited", !.exit_code = "1"]
    /\ UNCHANGED <<execVars, prefVars, setVars, batchVars, findVars>>

\* lines 1884-1886
ListDetectedApps ==
    /\ proc.pc = "start" /\ proc.platform = "darwin" /\ proc.args.list_apps
    /\ proc' = [proc EXCEPT !.pc = "exited", !.exit_code = "0",
                            !.listed = ListedCounts(disk)]
    /\ UNCHANGED <<execVars, prefVars, setVars, batchVars, findVars>>

\* lines 1888-1893: restore_all_apps or patch_all_known_apps is called
StartRun ==
    /\ proc.pc = "start" /\ proc.platform = "darwin" /\ ~proc.args.list_apps
    /\ proc' = [proc EXCEPT !.pc = "running"]
    /\ batch' = RunOf(proc.args)
    /\ UNCHANGED <<disk, disk0, execVars, prefVars, setVars, findVars>>

\* lines 1890-1891, 1894-1896: the loop is through, print_summary, return 0
MainReturn ==
    /\ proc.pc = "running" /\ ~batch.crashed /\ batch.i > Len(KNOWN_APPS)
    /\ proc' = [proc EXCEPT !.pc = "exited", !.exit_code = "0"]
    /\ UNCHANGED <<execVars, prefVars, setVars, batchVars, findVars>>

\* an exception that left the loop leaves main(): the interpreter prints the
\* traceback and exits with status 1
MainTraceback ==
    /\ proc.pc = "running" /\ batch.crashed
    /\ proc' = [proc EXCEPT !.pc = "exited", !.exit_code = "1"]
    /\ UNCHANGED <<execVars, prefVars, setVars, batchVars, findVars>>

MainNext ==
    \/ RejectPlatform
    \/ ListDetectedApps
    \/ StartRun
    \/ PatchNextApp
    \/ RestoreNextApp
    \/ MainReturn
    \/ MainTraceback

SpecMain == MainInit /\ [][MainNext]_vars

(***************************************************************************)
(* Claims about main()                                                     *)
(***************************************************************************)
\* C21: the run exits with code 1 and performs no patch, restore or listing
\* when the host platform is unsupported; on a supported platform it exits
\* with code 0 whatever the mode, runs in which some apps failed included.
C21_ExitCodeByPlatform ==
    proc.pc = "exited" =>
        IF proc.platform # "darwin"
        THEN /\ proc.exit_code = "1"
             /\ batch.mode = "none" /\ disk = disk0 /\ proc.listed = "none"
        ELSE proc.exit_code = "0"

====
